---- MODULE Spec2Model ----
(***************************************************************************)
(* Model of attention.py: the AdaptiveMask soft radial mask and the        *)
(* AttentionConv local self-attention layer that sizes its window from it. *)
(*                                                                         *)
(* Tensors are modelled by their shapes and, where the claims are about    *)
(* values (the span parameter, the ramp, the mask), by exact rationals:    *)
(*   - a span value is the integer numerator n of n / SpanDen;             *)
(*   - a mask weight is the integer numerator w of                         *)
(*     w / (ramp_size * SpanDen), so weight 1 is ramp_size * SpanDen.      *)
(* image_size is even throughout: max_size = image_size/2 is the step      *)
(* count of torch.linspace, which has to be integral.                      *)
(***************************************************************************)
EXTENDS Integers, Sequences, FiniteSets, TLC

\* ------------------------------------------------------------------ bounds
SpanDen == 2        \* span values are multiples of 1 / SpanDen
MaxHalfImage == 2   \* image_size is 2, 4, .. 2 * MaxHalfImage, or the default
MaxRamp == 2        \* ramp sizes 1..MaxRamp, or the default
MaxKernel == 3      \* constructor kernel_size 1..MaxKernel
MaxPadding == 1     \* constructor padding 0..MaxPadding
MaxSide == 3        \* height and width of the input of AttentionConv.forward
MaxMaskSide == 5    \* side of the input of a direct AdaptiveMask.forward

\* defaults of AttentionConv.__init__
DefaultR == 3
DefaultZInit == 4
DefaultImageSize == 32

\* ----------------------------------------------------------------- helpers
Min(a, b) == IF a <= b THEN a ELSE b
Max(a, b) == IF a >= b THEN a ELSE b

\* math.ceil(a / b) for b > 0 (\div rounds towards minus infinity)
Ceil(a, b) == -((-a) \div b)

\* tensor.clamp(lo, hi) / clamp_ on one element
Clamp(v, lo, hi) == Min(hi, Max(lo, v))

RECURSIVE SeqMax(_)
SeqMax(s) == IF Len(s) = 1 THEN s[1] ELSE Max(s[1], SeqMax(Tail(s)))

RECURSIVE SeqSum(_)
SeqSum(s) == IF Len(s) = 0 THEN 0 ELSE s[1] + SeqSum(Tail(s))

\* length of a Python slice seq[start:stop] of a sequence of length len
SliceLen(start, stop, len) ==
  LET lo == IF start < 0 THEN Max(start + len, 0) ELSE Min(start, len)
      hi == IF stop < 0 THEN Max(stop + len, 0) ELSE Min(stop, len)
  IN Max(hi - lo, 0)

\* first index (0-based) of the Python slice seq[-k:] of a sequence of length
\* len; -0 is 0, so k = 0 selects the whole sequence
LastStart(k, len) == IF k = 0 THEN 0 ELSE Max(len - k, 0)

\* --------------------------------------------------- AdaptiveMask.__init__
\* torch.linspace(1 - max_size, 0, steps=max_size)
MaskTemplate(max) == [j \in 1..max |-> (1 - max) + (j - 1)]

\* -------------------------------------------------- AdaptiveMask.forward
\* One element of one_d_mask after lines 36-38, for span numerator cv and
\* template entry t, as a numerator over ramp * SpanDen.
OneDMaskEntry(t, cv, max, ramp) ==
  Clamp(t * SpanDen + cv * max + ramp * SpanDen, 0, ramp * SpanDen)

\* one_d_mask as a list of rows: shape (max_size,) is one row per entry (a
\* scalar each), shape (groups, max_size) is one row of max_size entries per
\* group.
OneDMask(tmpl, cv, shape, max, ramp) ==
  IF Len(shape) = 1
  THEN [j \in 1..max |-> << OneDMaskEntry(tmpl[j], cv[1], max, ramp) >>]
  ELSE [g \in 1..Len(cv) |->
          [j \in 1..max |-> OneDMaskEntry(tmpl[j], cv[g], max, ramp)]]

\* [[row, j] for j in range(a, b)]
EdgeIndices(row, a, b) == [i \in 1..Max(b - a, 0) |-> << row, a + i - 1 >>]

\* the index list of one ring, lines 51-55
RingIndices(left, right) ==
  LET bottom == left
      top == right
  IN EdgeIndices(left, bottom, top + 1)
       \o EdgeIndices(bottom, left + 1, right + 1)
       \o EdgeIndices(top, left + 1, right + 1)
       \o EdgeIndices(right, bottom + 1, top)

\* mask[rows, cols] = value, line 57: value is a row of one_d_mask, either
\* one entry (broadcast) or one entry per index. With repeated indices and
\* distinct values the write that survives is not defined by the runtime:
\* dup_last picks the last or the first occurrence.
IndexPut(mask, indices, value, dup_last) ==
  [r \in DOMAIN mask |->
    [c \in DOMAIN mask[r] |->
      LET hits == {p \in 1..Len(indices) : indices[p] = << r, c >>}
          p == IF dup_last
               THEN CHOOSE q \in hits : \A o \in hits : o <= q
               ELSE CHOOSE q \in hits : \A o \in hits : q <= o
      IN IF hits = {} THEN mask[r][c]
         ELSE IF Len(value) = 1 THEN value[1] ELSE value[p]]]

\* the loop of lines 50-60 from ring i on; rows is the sliced one_d_mask
RECURSIVE PeelRings(_, _, _, _, _, _)
PeelRings(mask, rows, i, left, right, dup_last) ==
  IF i > Len(rows) THEN [status |-> "ok", rings |-> i - 1, mask |-> mask]
  ELSE LET indices == RingIndices(left, right)
           value == rows[i]
       IN IF Len(indices) = 0
          THEN [status |-> "ValueError", rings |-> i - 1, mask |-> mask]
          ELSE IF Len(value) # 1 /\ Len(value) # Len(indices)
          THEN [status |-> "RuntimeError", rings |-> i - 1, mask |-> mask]
          ELSE PeelRings(IndexPut(mask, indices, value, dup_last), rows,
                         i + 1, left + 1, right - 1, dup_last)

\* AdaptiveMask.forward on an input whose last two dimensions are h x w:
\* the mask, the number of rings assigned and the shape of x * mask.
MaskForward(tmpl, cv, shape, max, ramp, h, w, dup_last) ==
  LET one_d_mask == OneDMask(tmpl, cv, shape, max, ramp)
      first == LastStart(w \div 2, Len(one_d_mask))
      rows == SubSeq(one_d_mask, first + 1, Len(one_d_mask))
      ones == [r \in 0..(w - 1) |-> [c \in 0..(w - 1) |-> ramp * SpanDen]]
      built == PeelRings(ones, rows, 1, 0, w - 1, dup_last)
      fits == h = w \/ h = 1 \/ w = 1
  IN [N |-> w, H |-> h,
      status |-> IF built.status = "ok" /\ ~fits THEN "RuntimeError"
                 ELSE built.status,
      one_d_mask |-> rows,
      rings |-> built.rings,
      mask |-> built.mask,
      out_h |-> IF built.status = "ok" /\ fits THEN Max(h, w) ELSE 0,
      out_w |-> IF built.status = "ok" /\ fits THEN w ELSE 0]

\* ------------------------------------- AdaptiveMask.get_current_*_size
\* get_current_max_size without line 74's upper clamp
CurrentMaxSizeUnclamped(cv, max, ramp, include_ramp) ==
  LET current_size == Ceil(SeqMax(cv) * max, SpanDen)
  IN Max(0, IF include_ramp THEN current_size + ramp ELSE current_size)

\* get_current_max_size without line 74's lower clamp
CurrentMaxSizeNoFloor(cv, max, ramp, include_ramp) ==
  LET current_size == Ceil(SeqMax(cv) * max, SpanDen)
  IN Min(max, IF include_ramp THEN current_size + ramp ELSE current_size)

\* get_current_max_size, lines 70-75
CurrentMaxSize(cv, max, ramp, include_ramp) ==
  LET current_size == Ceil(SeqMax(cv) * max, SpanDen)
      with_ramp == IF include_ramp THEN current_size + ramp ELSE current_size
  IN Max(0, Min(max, with_ramp))

\* get_current_avg_size, lines 77-82 (the mean is exact for the dyadic spans
\* and group counts modelled here)
CurrentAvgSize(cv, max, ramp, include_ramp) ==
  LET current_size == Ceil(SeqSum(cv) * max, Len(cv) * SpanDen)
      with_ramp == IF include_ramp THEN current_size + ramp ELSE current_size
  IN Max(0, Min(max, with_ramp))

\* clamp_param, line 86
ClampedVal(cv) == [g \in 1..Len(cv) |-> Clamp(cv[g], 0, SpanDen)]

\* ------------------------------------------------- AttentionConv.forward
\* lines 152-153 without the increment of lines 154-155
AdaptiveKernelSizeEven(size) == 2 * (size + 1)

\* lines 152-155: the effective kernel size from the mask's current size
AdaptiveKernelSize(size) ==
  LET kernel_size == 2 * (size + 1)
  IN IF kernel_size % 2 = 0 THEN kernel_size + 1 ELSE kernel_size

\* tensor.unfold(dim, size, step): the number of windows along one axis
UnfoldCount(len, size, step) == (len - size) \div step + 1

\* The locals of AttentionConv.forward on an input of h x w, up to the call
\* of the mask: sizes, slice bounds, window counts and the first step that
\* raises ("ok" when line 210 is reached).
ForwardLocals(self, cv, max, ramp, h, w) ==
  LET kernel_size == IF self.adaptive_span
                     THEN AdaptiveKernelSize(CurrentMaxSize(cv, max, ramp, TRUE))
                     ELSE self.kernel_size
      padding == IF self.adaptive_span THEN (kernel_size - 1) \div 2
                 ELSE self.padding
      padded_h == h + 2 * padding
      padded_w == w + 2 * padding
      unfold_ok == kernel_size <= padded_h /\ kernel_size <= padded_w
      n_h == IF unfold_ok THEN UnfoldCount(padded_h, kernel_size, self.stride) ELSE 0
      n_w == IF unfold_ok THEN UnfoldCount(padded_w, kernel_size, self.stride) ELSE 0
      start_ind == IF self.adaptive_span
                   THEN (self.kernel_size \div 2) - (kernel_size \div 2) ELSE 0
      end_ind == IF self.adaptive_span
                 THEN (self.kernel_size \div 2) + (kernel_size \div 2)
                 ELSE self.rel_len - 1
      rel_slice == IF self.adaptive_span
                   THEN SliceLen(start_ind, end_ind + 1, self.rel_len)
                   ELSE self.rel_len
      split_ok == self.out_channels \div 2 > 0 /\ self.out_channels % 2 = 0
      \* rel_h broadcasts against the windows: as long as them, or length 1
      add_ok == rel_slice = kernel_size \/ rel_slice = 1
      view_ok == (n_h * n_w * kernel_size * kernel_size) % (h * w) = 0
  IN [height |-> h, width |-> w,
      kernel_size |-> kernel_size, padding |-> padding,
      n_h |-> n_h, n_w |-> n_w,
      start_ind |-> start_ind, end_ind |-> end_ind, rel_slice |-> rel_slice,
      status |-> IF ~unfold_ok THEN "unfold"
                 ELSE IF ~split_ok THEN "split"
                 ELSE IF ~add_ok THEN "add_rel"
                 ELSE IF ~view_ok THEN "view"
                 ELSE "ok",
      out_h |-> 0, out_w |-> 0]

\* ------------------------------------------------------------------ state
VARIABLES
  obj,            \* "none", "AdaptiveMask", "AttentionConv" or "error"
  self,           \* the fields of the AttentionConv layer
  max_size,       \* AdaptiveMask._max_size
  ramp_size,      \* AdaptiveMask._ramp_size
  current_val,    \* AdaptiveMask.current_val, one span numerator per entry
  shape,          \* the shape of current_val: <<1>> or <<groups, 1>>
  mask_template,  \* AdaptiveMask.mask_template
  call,           \* the last call made on the object
  size,           \* the last size query and what it returned to the caller
  fwd,            \* the locals of AttentionConv.forward, when it was the last call
  mk              \* the locals of AdaptiveMask.forward, when it ran in the last call

vars == << obj, self, max_size, ramp_size, current_val, shape, mask_template,
           call, size, fwd, mk >>

NoSelf == [out_channels |-> 0, kernel_size |-> 0, rel_len |-> 0,
           adaptive_span |-> FALSE, stride |-> 0, padding |-> 0, groups |-> 0]
NoSize == [kind |-> "none", include_ramp |-> FALSE, span |-> 0, ret |-> 0]
NoFwd == [height |-> 0, width |-> 0, kernel_size |-> 0, padding |-> 0,
          n_h |-> 0, n_w |-> 0, start_ind |-> 0, end_ind |-> 0,
          rel_slice |-> 0, status |-> "none", out_h |-> 0, out_w |-> 0]
NoMask == [N |-> 0, H |-> 0, status |-> "none", one_d_mask |-> << >>,
           rings |-> 0, mask |-> << >>, out_h |-> 0, out_w |-> 0]

\* ----------------------------------------- the inputs the calls are tried on
SpanNums == (-1)..(SpanDen + 1)
InitVals == {0, SpanDen, DefaultZInit * SpanDen}
MaskSizes == 1..(MaxHalfImage + 1)
Channels == {1, 2, 3}
Groups == {1, 2}
Strides == {1, 2}
MaskShapes == {<< 1 >>, << 2, 1 >>}

\* Constructor arguments of AttentionConv as tuples << out_channels,
\* kernel_size, stride, padding, groups, R, z_init, image_size,
\* adaptive_span >>.
\* fixed windows: R and z_init keep their defaults, on the smallest image
FixedArgs ==
  {<< oc, k, s, p, g, DefaultR, DefaultZInit * SpanDen, 2, FALSE >> :
     oc \in Channels, k \in 1..MaxKernel, s \in Strides, p \in 0..MaxPadding,
     g \in Groups}
\* adaptive windows: the arguments the adaptive path reads, kernel_size being
\* the largest fixed one or image_size + 1
AdaptiveArgs ==
  UNION {{<< 2, k, 1, 0, g, R, z, 2 * half, TRUE >> :
            k \in {MaxKernel, 2 * half + 1}, g \in Groups,
            R \in 1..MaxRamp, z \in InitVals} : half \in 1..MaxHalfImage}
\* the call under __main__, and the adaptive layer on 32 x 32 images with
\* R = 4 and a span fraction of 1
MainArgs ==
  << 16, 3, 1, 1, 1, DefaultR, DefaultZInit * SpanDen, DefaultImageSize, FALSE >>
FullSpanArgs ==
  << 16, 3, 1, 0, 1, 4, SpanDen, DefaultImageSize, TRUE >>
ConvArgs == FixedArgs \cup AdaptiveArgs \cup {MainArgs, FullSpanArgs}

Init ==
  /\ obj = "none"
  /\ self = NoSelf
  /\ max_size = 0
  /\ ramp_size = 0
  /\ current_val = << >>
  /\ shape = << >>
  /\ mask_template = << >>
  /\ call = "none"
  /\ size = NoSize
  /\ fwd = NoFwd
  /\ mk = NoMask

\* AdaptiveMask.__init__, lines 27-32
MaskInit(max, ramp, init_val, shp) ==
  /\ max_size' = max
  /\ ramp_size' = ramp
  /\ shape' = shp
  /\ current_val' = [g \in 1..shp[1] |-> init_val]
  /\ mask_template' = MaskTemplate(max)

\* AdaptiveMask(max_size, ramp_size, init_val, shape), with the default shape
\* (1,) or a shape (groups, 1) as the layer uses
ConstructMask ==
  /\ obj = "none"
  /\ \E max \in MaskSizes, ramp \in 1..MaxRamp, init_val \in 0..SpanDen,
        shp \in MaskShapes :
       MaskInit(max, ramp, init_val, shp)
  /\ obj' = "AdaptiveMask"
  /\ call' = "__init__"
  /\ UNCHANGED << self, size, fwd, mk >>

\* AttentionConv.__init__, lines 93-126
AttentionConvInit(out_channels, kernel_size, stride, padding, groups, R, z_init, image_size, adaptive_span) ==
  /\ call' = "__init__"
  /\ IF out_channels % groups # 0
     THEN /\ obj' = "error"
          /\ UNCHANGED << self, max_size, ramp_size, current_val, shape,
                          mask_template >>
     ELSE /\ obj' = "AttentionConv"
          /\ self' = [out_channels |-> out_channels,
                      kernel_size |-> IF adaptive_span THEN image_size + 1
                                      ELSE kernel_size,
                      rel_len |-> kernel_size,
                      adaptive_span |-> adaptive_span,
                      stride |-> stride,
                      padding |-> padding,
                      groups |-> groups]
          /\ MaskInit(image_size \div 2, R, z_init, << groups, 1 >>)
  /\ UNCHANGED << size, fwd, mk >>

ConstructAttentionConv ==
  /\ obj = "none"
  /\ \E a \in ConvArgs :
       AttentionConvInit(a[1], a[2], a[3], a[4], a[5], a[6], a[7], a[8], a[9])

\* which of several writes to one mask cell survives is open only when a row
\* of one_d_mask holds one value per index of some ring of a side of n
DupChoices(n) ==
  IF /\ Len(shape) = 2
     /\ max_size > 1
     /\ \E i \in 0..(n \div 2) : Len(RingIndices(i, n - 1 - i)) = max_size
  THEN BOOLEAN ELSE {TRUE}

Built == obj \in {"AdaptiveMask", "AttentionConv"}

\* an optimizer step writes the span parameter
ExternalUpdate ==
  /\ Built
  /\ \E v \in [1..Len(current_val) -> SpanNums] : current_val' = v
  /\ call' = "update"
  /\ fwd' = NoFwd
  /\ mk' = NoMask
  /\ UNCHANGED << obj, self, max_size, ramp_size, shape, mask_template, size >>

\* AdaptiveMask.clamp_param, lines 84-86
ClampParam ==
  /\ Built
  /\ current_val' = ClampedVal(current_val)
  /\ call' = "clamp_param"
  /\ fwd' = NoFwd
  /\ mk' = NoMask
  /\ UNCHANGED << obj, self, max_size, ramp_size, shape, mask_template, size >>

\* AdaptiveMask.get_current_max_size(include_ramp), called directly (the layer
\* calls it inside forward)
GetCurrentMaxSize ==
  /\ obj = "AdaptiveMask"
  /\ \E include_ramp \in BOOLEAN :
       size' = [kind |-> "max", include_ramp |-> include_ramp,
                span |-> SeqMax(current_val),
                ret |-> CurrentMaxSize(current_val, max_size, ramp_size,
                                       include_ramp)]
  /\ call' = "get_current_max_size"
  /\ fwd' = NoFwd
  /\ mk' = NoMask
  /\ UNCHANGED << obj, self, max_size, ramp_size, current_val, shape,
                  mask_template >>

\* AdaptiveMask.get_current_avg_size(include_ramp)
GetCurrentAvgSize ==
  /\ obj = "AdaptiveMask"
  /\ \E include_ramp \in BOOLEAN :
       size' = [kind |-> "avg", include_ramp |-> include_ramp,
                span |-> SeqSum(current_val),
                ret |-> CurrentAvgSize(current_val, max_size, ramp_size,
                                       include_ramp)]
  /\ call' = "get_current_avg_size"
  /\ fwd' = NoFwd
  /\ mk' = NoMask
  /\ UNCHANGED << obj, self, max_size, ramp_size, current_val, shape,
                  mask_template >>

\* AdaptiveMask.forward(x) called directly on a square x of side n
AdaptiveMaskForward ==
  /\ obj = "AdaptiveMask"
  /\ \E n \in 1..MaxMaskSide : \E dup_last \in DupChoices(n) :
       mk' = MaskForward(mask_template, current_val, shape, max_size,
                         ramp_size, n, n, dup_last)
  /\ call' = "AdaptiveMask.forward"
  /\ fwd' = NoFwd
  /\ size' = NoSize
  /\ UNCHANGED << obj, self, max_size, ramp_size, current_val, shape,
                  mask_template >>

\* AttentionConv.forward(x), x of spatial size h x w, lines 128-212: what the
\* call computes; it assigns no field of the layer or of its mask
ForwardComputes ==
  /\ obj = "AttentionConv"
  /\ \E h \in 1..MaxSide, w \in 1..MaxSide : \E dup_last \in DupChoices(w) :
       LET locals == ForwardLocals(self, current_val, max_size, ramp_size, h, w)
           masked == MaskForward(mask_template, current_val, shape, max_size,
                                 ramp_size, h, w, dup_last)
       IN IF locals.status # "ok"
          THEN fwd' = locals /\ mk' = NoMask
          ELSE /\ mk' = masked
               /\ fwd' = [locals EXCEPT
                            !.status = IF masked.status = "ok" THEN "ok"
                                       ELSE "adaptive_mask",
                            !.out_h = masked.out_h,
                            !.out_w = masked.out_w]
  /\ call' = "AttentionConv.forward"
  /\ size' = NoSize
  /\ UNCHANGED << obj, self, max_size, ramp_size, shape, mask_template >>

\* a forward pass that clamps the span parameter in place on the way
AttentionConvForwardClamping ==
  ForwardComputes /\ current_val' = ClampedVal(current_val)

AttentionConvForward ==
  ForwardComputes /\ UNCHANGED current_val

Next ==
  \/ ConstructMask
  \/ ConstructAttentionConv
  \/ ExternalUpdate
  \/ ClampParam
  \/ GetCurrentMaxSize
  \/ GetCurrentAvgSize
  \/ AdaptiveMaskForward
  \/ AttentionConvForward

Spec == Init /\ [][Next]_vars

\* The caller that follows clamp_param's docstring: every external update is
\* followed by clamp_param before anything else is called.
NextClamped ==
  \/ ClampParam
  \/ call # "update" /\ ConstructMask
  \/ call # "update" /\ ConstructAttentionConv
  \/ call # "update" /\ ExternalUpdate
  \/ call # "update" /\ GetCurrentMaxSize
  \/ call # "update" /\ GetCurrentAvgSize
  \/ call # "update" /\ AdaptiveMaskForward
  \/ call # "update" /\ AttentionConvForward

SpecClamped == Init /\ [][NextClamped]_vars

\* ------------------------------------------------------------------ claims
One == ramp_size * SpanDen
InUnit(cv) == \A g \in 1..Len(cv) : 0 <= cv[g] /\ cv[g] <= SpanDen
RingOf(r, c, n) == Min(Min(r, c), Min(n - 1 - r, n - 1 - c))
ReadOnlyCalls == {"AdaptiveMask.forward", "AttentionConv.forward",
                  "get_current_max_size", "get_current_avg_size"}

\* C1: after AdaptiveMask.forward with a 1-D ramp, every cell of ring d below
\* the number of rings processed holds ramp[d], and every other cell holds 1.
C1_RingWeights ==
  (mk.status = "ok" /\ Len(shape) = 1) =>
    \A r \in 0..(mk.N - 1), c \in 0..(mk.N - 1) :
      LET d == RingOf(r, c, mk.N)
      IN mk.mask[r][c] = IF d < mk.rings THEN mk.one_d_mask[d + 1][1] ELSE One

\* C2: with a ramp of length floor(N/2) the mask is unchanged by the rotations
\* and reflections of the square.
C2_MaskSymmetric ==
  (mk.status = "ok" /\ Len(shape) = 1 /\ Len(mk.one_d_mask) = mk.N \div 2) =>
    \A r \in 0..(mk.N - 1), c \in 0..(mk.N - 1) :
      /\ mk.mask[r][c] = mk.mask[c][mk.N - 1 - r]
      /\ mk.mask[r][c] = mk.mask[mk.N - 1 - r][c]
      /\ mk.mask[r][c] = mk.mask[r][mk.N - 1 - c]
      /\ mk.mask[r][c] = mk.mask[c][r]

\* C3: in adaptive mode the effective kernel size is odd and fits the stored
\* rel_h / rel_w, so the slice start_ind..end_ind lies inside them and holds
\* exactly kernel_size entries.
C3_SliceInsideStored ==
  (call = "AttentionConv.forward" /\ self.adaptive_span) =>
    /\ fwd.kernel_size % 2 = 1
    /\ fwd.kernel_size <= self.rel_len
    /\ fwd.start_ind >= 0
    /\ fwd.end_ind < self.rel_len
    /\ fwd.rel_slice = fwd.kernel_size

C5_KernelSizeFromSpanPlusRamp ==
  (call = "AttentionConv.forward" /\ self.adaptive_span) =>
    LET lower == 2 * (Ceil(SeqMax(current_val) * max_size, SpanDen)
                      + ramp_size + 1)
    IN /\ fwd.kernel_size % 2 = 1
       /\ lower <= fwd.kernel_size
       /\ fwd.kernel_size <= lower + 1

\* C5 amended: the effective kernel size is the next odd integer at or above
\* 2 * (s + 1), where s is ceil(span * max_size) + R clamped into
\* [0, max_size]; it is 35 for image_size 32, R = 4 and a span of 1.
C5_KernelSizeFromClampedSize ==
  (call = "AttentionConv.forward" /\ self.adaptive_span) =>
    LET s == Max(0, Min(max_size, Ceil(SeqMax(current_val) * max_size, SpanDen)
                                    + ramp_size))
    IN /\ fwd.kernel_size % 2 = 1
       /\ 2 * (s + 1) <= fwd.kernel_size
       /\ fwd.kernel_size <= 2 * (s + 1) + 1
       /\ (max_size = 16 /\ ramp_size = 4 /\ SeqMax(current_val) = SpanDen) =>
            fwd.kernel_size = 35

C5_FullSpanOn32 ==
  /\ call = "AttentionConv.forward"
  /\ self.adaptive_span
  /\ self.kernel_size = 33
  /\ ramp_size = 4
  /\ current_val = << SpanDen >>
  /\ fwd.kernel_size = 35

\* C6: get_current_max_size(include_ramp=False) lies in [0, max_size], and of
\* two such queries the one made at the smaller span (the maximum over the
\* groups) returns no more than the other, spans outside [0, 1] included.
C6_MaxSizeMonotoneBounded ==
  [][(size'.kind = "max" /\ ~size'.include_ramp) =>
       /\ 0 <= size'.ret /\ size'.ret <= max_size'
       /\ (size.kind = "max" /\ ~size.include_ramp) =>
            /\ size.span <= size'.span => size.ret <= size'.ret
            /\ size'.span <= size.span => size'.ret <= size.ret]_vars

C6_QueriedBeyondOne ==
  /\ call = "get_current_max_size"
  /\ ~size.include_ramp
  /\ Len(current_val) = 2
  /\ current_val[1] < 0
  /\ current_val[2] > SpanDen
  /\ size.ret = max_size

\* C7: a constructed AttentionConv has out_channels divisible by groups and by
\* 2 and an odd stored kernel size; any other construction raised an error.
C7_ConstructionRejects ==
  obj = "AttentionConv" =>
    /\ self.out_channels % self.groups = 0
    /\ self.out_channels % 2 = 0
    /\ self.kernel_size % 2 = 1

\* C8: when every external update is followed by clamp_param, the span
\* parameter of a layer is in [0, 1] whenever a forward pass has run (the size
\* query is part of it).
C8_SpanInUnitInterval ==
  (obj = "AttentionConv" /\ call \in ReadOnlyCalls) => InUnit(current_val)

\* C9: the forward passes and the size queries leave current_val and
\* mask_template as they were, only construction, an external update or
\* clamp_param changes current_val, and clamp_param changes nothing when the
\* span is already in [0, 1].
C9_ReadOnlyCalls ==
  [][/\ call' \in ReadOnlyCalls =>
          (current_val' = current_val /\ mask_template' = mask_template)
     /\ current_val' # current_val =>
          call' \in {"__init__", "update", "clamp_param"}
     /\ (call' = "clamp_param" /\ InUnit(current_val)) =>
          current_val' = current_val]_vars

C9_ForwardReturnedUnclamped ==
  /\ call = "AttentionConv.forward"
  /\ fwd.status = "ok"
  /\ ~InUnit(current_val)

\* C10: after AdaptiveMask.forward with a 1-D ramp on a side of N, the loop has
\* ended without error after exactly min(floor(N/2), max_size) rings, each with
\* left <= right.
C10_RingCount ==
  (call = "AdaptiveMask.forward" /\ Len(shape) = 1) =>
    /\ mk.status = "ok"
    /\ mk.rings = Min(mk.N \div 2, max_size)
    /\ \A i \in 0..(mk.rings - 1) : i <= mk.N - 1 - i

====
